---- MODULE Spec2Model ----
(***************************************************************************)
(* Coinafrica scraper (src/app/my_data_app.py): the page fetcher and its   *)
(* cache, the listing extractor, the price cleaner, scrape_category, the   *)
(* Scraper page handler that persists a batch, and the two pages that read *)
(* the database back (Dashboard, DB Viewer).                               *)
(*                                                                         *)
(* Conventions.  A Python value that may be None is a sequence of length   *)
(* at most one: None is << >>, a present value v is << v >>.  A text that  *)
(* the code inspects character by character (the price) is a sequence of   *)
(* one-character strings; the other texts are atomic strings.  A timestamp *)
(* (pd.Timestamp.now().isoformat()) is the reading of a clock that is not   *)
(* set back; ISO strings of one format order as the readings do.           *)
(***************************************************************************)
EXTENDS Integers, Sequences, FiniteSets, TLC

\* ----------------------------------------------------------------- bounds
\* Greatest "Maximum number of pages to scrape" (the slider goes to 30).
MaxPages == 2
\* Number of "Start scraping" clicks followed.
MaxRuns == 2
\* Greatest length of the texts given to the price cleaner in isolation.
MaxLen == 3
\* Number of ad cards of a long listing page.
BigPageLen == 251

\* ------------------------------------------------------ program constants
\* LIMIT of the DB Viewer's two SELECT statements.
ViewerLimit == 500

None == << >>
Some(v) == << v >>

Sessions == {1, 2}
Categories == {"dogs"}
BaseUrls == {"https://sn.coinafrique.com/categorie/chiens"}

\* ------------------------------------------------------------ price cleaner
DigitChars == {"0", "1", "2", "3", "4", "5", "6", "7", "8", "9"}

DigitValue(c) ==
  CASE c = "0" -> 0 [] c = "1" -> 1 [] c = "2" -> 2 [] c = "3" -> 3
    [] c = "4" -> 4 [] c = "5" -> 5 [] c = "6" -> 6 [] c = "7" -> 7
    [] c = "8" -> 8 [] c = "9" -> 9

\* re.sub(r"[^0-9]", "", price_raw): every character outside 0-9 is removed.
IsDigit(c) == c \in DigitChars

ReSubNonDigits(str) == SelectSeq(str, IsDigit)

\* int(digits): the base-10 value of a non-empty digit string, read left to
\* right (leading zeros allowed; Python integers do not overflow).
RECURSIVE ParseInt(_)
ParseInt(digits) ==
  IF digits = << >> THEN 0
  ELSE 10 * ParseInt(SubSeq(digits, 1, Len(digits) - 1))
       + DigitValue(digits[Len(digits)])

\* Faulty variant: "int(digits) if digits else None" without its else branch, a text
\* without digits counted as 0.
clean_price_to_int_zero(price_raw) ==
  IF price_raw = None \/ price_raw[1] = << >> THEN None
  ELSE Some(ParseInt(ReSubNonDigits(price_raw[1])))

\* clean_price_to_int: "if not price_raw: return None" covers None and "".
clean_price_to_int(price_raw) ==
  IF price_raw = None \/ price_raw[1] = << >> THEN None
  ELSE LET digits == ReSubNonDigits(price_raw[1])
       IN  IF digits # << >> THEN Some(ParseInt(digits)) ELSE None

\* ------------------------------------------------------------ remote site
\* An ad card of a listing page: the texts of its three optional <p> tags
\* (already stripped, as get_text(strip=True) returns them) and its optional
\* <img> tag with its optional src and data-src attributes.
CardA == [description |-> Some("Chiot berger"),
          price |-> Some(<<"1", "2", " ", "5", "0", "0", " ", "F">>),
          location |-> Some("Dakar"),
          img |-> Some([src |-> Some("/a.jpg"), data_src |-> None])]
CardB == [description |-> Some("Mouton"),
          price |-> None,
          location |-> None,
          img |-> Some([src |-> None, data_src |-> Some("/b.jpg")])]
CardC == [description |-> None,
          price |-> Some(<<"P", "r", "i", "x">>),
          location |-> Some("Thies"),
          img |-> None]

\* The text of a response: blank is the empty string "".
BlankText == [blank |-> TRUE, cards |-> << >>]
NoCardText == [blank |-> FALSE, cards |-> << >>]
OneCardText == [blank |-> FALSE, cards |-> <<CardA>>]
TwoCardText == [blank |-> FALSE, cards |-> <<CardB, CardC>>]
BigText == [blank |-> FALSE,
            cards |-> [i \in 1..BigPageLen |-> IF i % 2 = 1 THEN CardA ELSE CardB]]

\* What a GET of a URL meets: a transport error or non-success status
\* (ok = FALSE), or a success with a text.
Failure == [ok |-> FALSE, text |-> BlankText]
Success(text) == [ok |-> TRUE, text |-> text]

Responses == {Failure, Success(BlankText), Success(NoCardText),
              Success(OneCardText), Success(TwoCardText)}

\* f"{url_base}?page={page}": the base and the page number determine the URL.
PageUrl(url_base, page) == <<url_base, page>>

Urls == { PageUrl(b, p) : b \in BaseUrls, p \in 1..MaxPages }

VARIABLES
  price_in, price_out, price_done,  \* the price cleaner run in isolation
  site,         \* the responses the remote site may give to a GET (fixed)
  cache,        \* st.cache_data of fetch_page: cached URL -> returned value
  gets,         \* history: URL -> number of requests.get issued
  first_ret,    \* history: URL -> value of the first fetch_page(url) call
  clock,        \* reading of pd.Timestamp.now()
  raw_ads, cleaned_ads,   \* the two tables: None (absent) or Some(rows)
  csv,          \* data/<category>_raw.csv and _cleaned.csv: None or Some(rows)
  runs,         \* number of "Start scraping" clicks so far
  writes,       \* history: number of committed table appends
  pc,           \* per session: position of the script run
  scrape,       \* per session: arguments and locals of scrape_category
  log,          \* per session, history: what the scrape_category call under
                \* way (or just returned) did, in order
  raw_df, cleaned_df,     \* per session: the handler's two frames
  status,       \* per session: how the last script run ended
  io_error,     \* per session, history: the storage operations of the run
                \* that raised
  view          \* per session: frames read back by Dashboard / DB Viewer

price_vars == <<price_in, price_out, price_done>>
site_vars == <<site, cache, gets, first_ret, clock>>
store_vars == <<raw_ads, cleaned_ads, csv, writes>>
session_vars == <<runs, pc, scrape, log, raw_df, cleaned_df, status, io_error, view>>
vars == <<price_vars, site_vars, store_vars, session_vars>>

\* ------------------------------------------------------------ extractor
\* img_tag.get("src") or img_tag.get("data-src"): the first operand unless
\* it is None or "".
PyOr(a, b) == IF a = None \/ a = Some("") THEN b ELSE a

extract_item(card) ==
  [name |-> card.description,
   price_raw |-> card.price,
   address |-> card.location,
   image_link |-> IF card.img # None
                  THEN PyOr(card.img[1].src, card.img[1].data_src)
                  ELSE None]

extract_items_from_page_text(html_text) ==
  [i \in 1..Len(html_text.cards) |-> extract_item(html_text.cards[i])]

\* ------------------------------------------------------------ fetcher
\* The body of fetch_page: one GET, which meets the response the remote site
\* gives at that moment; any exception becomes None.
requests_get(response) == IF response.ok THEN Some(response.text) ELSE None

\* Faulty variant: fetch_page without its cache decorator.
CacheHit_never(url) == FALSE

\* st.cache_data: a call whose argument was seen returns the stored value.
CacheHit(url) == url \in DOMAIN cache

\* fetch_page(url), response being what the site would serve now.
fetch_page(url, response) ==
  IF CacheHit(url) THEN cache[url] ELSE requests_get(response)

\* The effect of one fetch_page(url) call on the cache and on the histories.
FetchEffect(url, response) ==
  /\ cache' = IF CacheHit(url) THEN cache
              ELSE (url :> requests_get(response)) @@ cache
  /\ gets' = IF CacheHit(url) THEN gets ELSE [gets EXCEPT ![url] = @ + 1]
  /\ first_ret' = IF url \in DOMAIN first_ret THEN first_ret
                  ELSE (url :> fetch_page(url, response)) @@ first_ret

\* "if not html": None or the empty string.
NotHtml(html) == html = None \/ html[1].blank

\* ------------------------------------------------------------ rows
raw_row(category_key, it, timestamp) ==
  [category |-> category_key, name |-> it.name, price_raw |-> it.price_raw,
   address |-> it.address, image_link |-> it.image_link, scraped_at |-> timestamp]

cleaned_row(category_key, it, timestamp) ==
  [category |-> category_key, name |-> it.name,
   price |-> clean_price_to_int(it.price_raw),
   address |-> it.address, image_link |-> it.image_link, scraped_at |-> timestamp]

\* Faulty variant: the clock read inside the loop over the items, once per item.
RawRowsOf_stampPerItem(category_key, items, timestamp) ==
  [i \in 1..Len(items) |-> raw_row(category_key, items[i], timestamp + i - 1)]

RawRowsOf(category_key, items, timestamp) ==
  [i \in 1..Len(items) |-> raw_row(category_key, items[i], timestamp)]

\* Faulty variant: the cleaned rows of the items that have a price only.
CleanedRowsOf_priced(category_key, items, timestamp) ==
  LET Priced(it) == clean_price_to_int(it.price_raw) # None
      kept == SelectSeq(items, Priced)
  IN  [i \in 1..Len(kept) |-> cleaned_row(category_key, kept[i], timestamp)]

CleanedRowsOf(category_key, items, timestamp) ==
  [i \in 1..Len(items) |-> cleaned_row(category_key, items[i], timestamp)]

\* An entry of the log: a fetch_page call and what it returned, the rows of
\* a page appended (n of them), a progress_callback(page, n) call, a sleep.
Event(ev, page, n, html) == [ev |-> ev, page |-> page, n |-> n, html |-> html]

NoScrape == [url_base |-> "", category_key |-> "", max_pages |-> 0, page |-> 0,
             all_raw |-> << >>, all_cleaned |-> << >>]

NoView == [kind |-> "none", raw |-> << >>, cleaned |-> << >>, writes |-> 0]

\* ------------------------------------------------------------ tables
\* CREATE TABLE IF NOT EXISTS: an existing table is left as it is.
create_table_if_not_exists(table) == IF table = None THEN Some(<< >>) ELSE table

\* Faulty variant: to_sql with if_exists="replace".
to_sql_replace(table, df) == Some(df)

\* df.to_sql(name, conn, if_exists="append"): the rows are added after the
\* stored ones (the table is created when absent), in one transaction.
to_sql_append(table, df) ==
  IF table = None THEN Some(df) ELSE Some(table[1] \o df)

Rows(table) == IF table = None THEN << >> ELSE table[1]

\* ------------------------------------------------- price cleaner, in isolation
\* The inputs of the price cleaner: None, every text of at most MaxLen
\* characters over PriceAlphabet, and the texts the documentation names.
PriceAlphabet == {"0", "1", "5", " ", "-", "F"}

RECURSIVE TextsUpTo(_)
TextsUpTo(n) ==
  IF n = 0 THEN { << >> }
  ELSE LET shorter == TextsUpTo(n - 1)
       IN  shorter \cup { Append(t, c) : t \in shorter, c \in PriceAlphabet }

Text_12_500_FCFA == <<"1", "2", " ", "5", "0", "0", " ", "F", "C", "F", "A">>
Text_12_34 == <<"1", "2", "-", "3", "4">>
Text_abc == <<"a", "b", "c">>
Text_1_200_FCFA == <<"1", ".", "2", "0", "0", " ", "F", "C", "F", "A">>
Text_007 == <<"0", "0", "7">>

DocumentedTexts == {Text_12_500_FCFA, Text_12_34, Text_abc, Text_1_200_FCFA, Text_007}

PriceInputs == {None} \cup { Some(t) : t \in TextsUpTo(MaxLen) \cup DocumentedTexts }


\* ------------------------------------------------------------ initial state
\* A fresh process with an empty data/ directory: no table, no CSV file,
\* nothing cached, every session idle.
InitSessions ==
  /\ runs = 0
  /\ pc = [s \in Sessions |-> "idle"]
  /\ scrape = [s \in Sessions |-> NoScrape]
  /\ log = [s \in Sessions |-> << >>]
  /\ raw_df = [s \in Sessions |-> << >>]
  /\ cleaned_df = [s \in Sessions |-> << >>]
  /\ status = [s \in Sessions |-> "none"]
  /\ io_error = [s \in Sessions |-> {}]
  /\ view = [s \in Sessions |-> NoView]

InitStore ==
  /\ raw_ads = None
  /\ cleaned_ads = None
  /\ csv = [c \in Categories |-> [raw |-> None, cleaned |-> None]]
  /\ writes = 0

InitSite ==
  /\ site = Responses
  /\ cache = << >>
  /\ gets = [u \in Urls |-> 0]
  /\ first_ret = << >>
  /\ clock = 0

PriceIdle ==
  /\ price_in = None
  /\ price_out = None
  /\ price_done = FALSE

Init ==
  /\ InitSite
  /\ InitStore
  /\ InitSessions
  /\ PriceIdle

\* ------------------------------------------------------------ environment
\* pd.Timestamp.now(): time has passed since the last reading (a fetch and
\* a parse lie between two readings; the clock is not set back).
TimestampNow == clock + 1

\* ------------------------------------------------------------ script runs
\* Every script run starts with create_tables_if_not_exists().
CreateTables ==
  /\ raw_ads' = create_table_if_not_exists(raw_ads)
  /\ cleaned_ads' = create_table_if_not_exists(cleaned_ads)

\* A session can start a script run when none of its own is under way.
Idle(s) == pc[s] \in {"idle", "done"}

\* "Start scraping" is clicked: the handler calls scrape_category(url_input,
\* selected_category, max_pages=pages, ..., progress_callback=prog_cb),
\* which sets its two lists empty and enters the loop at page 1.
StartScraping(s) ==
  /\ Idle(s)
  /\ runs < MaxRuns
  /\ runs' = runs + 1
  /\ CreateTables
  /\ \E url_input \in BaseUrls, selected_category \in Categories, pages \in 1..MaxPages :
       scrape' = [scrape EXCEPT ![s] =
                    [url_base |-> url_input, category_key |-> selected_category,
                     max_pages |-> pages, page |-> 1,
                     all_raw |-> << >>, all_cleaned |-> << >>]]
  /\ pc' = [pc EXCEPT ![s] = "scraping"]
  /\ log' = [log EXCEPT ![s] = << >>]
  /\ raw_df' = [raw_df EXCEPT ![s] = << >>]
  /\ cleaned_df' = [cleaned_df EXCEPT ![s] = << >>]
  /\ status' = [status EXCEPT ![s] = "running"]
  /\ io_error' = [io_error EXCEPT ![s] = {}]
  /\ view' = [view EXCEPT ![s] = NoView]
  /\ UNCHANGED <<price_vars, site_vars, csv, writes>>

\* scrape_category returns: raw_df = pd.DataFrame(all_raw), and likewise
\* cleaned_df.
Return(s, sc) ==
  /\ scrape' = [scrape EXCEPT ![s] = sc]
  /\ raw_df' = [raw_df EXCEPT ![s] = sc.all_raw]
  /\ cleaned_df' = [cleaned_df EXCEPT ![s] = sc.all_cleaned]
  /\ pc' = [pc EXCEPT ![s] = "returned"]

\* Faulty variant: the progress callback called before the rows are accumulated.
RecordedEvents_progressFirst(page, n, max_pages) ==
  <<Event("progress", page, max_pages, None), Event("append", page, n, None),
    Event("sleep", page, 0, None)>>

\* The events of a page whose items were recorded, in the order of the code:
\* the rows are appended, then progress_callback(page, max_pages), then
\* time.sleep(sleep).
RecordedEvents(page, n, max_pages) ==
  <<Event("append", page, n, None), Event("progress", page, max_pages, None),
    Event("sleep", page, 0, None)>>

\* Faulty variant: the loop without its "if not items: break".
Breaks_onlyNoHtml(html, items) == NotHtml(html)

\* "if not html: break" and "if not items: break".
Breaks(html, items) == NotHtml(html) \/ items = << >>

\* Faulty variant: range(1, max_pages), one page short.
MorePages_short(page, max_pages) == page + 1 < max_pages

\* range(1, max_pages+1) has a page after this one.
MorePages(page, max_pages) == page < max_pages

\* One iteration of the loop "for page in range(1, max_pages+1)":
\* html = fetch_page(page_url), "if not html: break",
\* items = extract_items_from_page_text(html), "if not items: break", one
\* timestamp, one raw and one cleaned row per item, the progress callback,
\* the sleep, and then the next page or, the range exhausted, the return.
\* fetch_page runs under the cache's lock and the rest touches only locals.
ScrapePage(s) ==
  /\ pc[s] = "scraping"
  /\ \E response \in site :
       LET sc == scrape[s]
           timestamp == TimestampNow
           page_url == PageUrl(sc.url_base, sc.page)
           html == fetch_page(page_url, response)
           items == IF NotHtml(html) THEN << >>
                    ELSE extract_items_from_page_text(html[1])
           grown == [sc EXCEPT
                       !.all_raw = @ \o RawRowsOf(sc.category_key, items, timestamp),
                       !.all_cleaned = @ \o CleanedRowsOf(sc.category_key, items, timestamp)]
           fetched == Append(log[s], Event("fetch", sc.page, 0, html))
       IN  /\ FetchEffect(page_url, response)
           /\ IF Breaks(html, items)
              THEN /\ log' = [log EXCEPT ![s] = fetched]
                   /\ Return(s, sc)
                   /\ UNCHANGED clock
              ELSE /\ clock' = timestamp
                   /\ log' = [log EXCEPT ![s] =
                                fetched \o RecordedEvents(sc.page, Len(items), sc.max_pages)]
                   /\ IF MorePages(sc.page, sc.max_pages)
                      THEN /\ scrape' = [scrape EXCEPT ![s] = [grown EXCEPT !.page = @ + 1]]
                           /\ UNCHANGED <<pc, raw_df, cleaned_df>>
                      ELSE Return(s, grown)
  /\ UNCHANGED <<price_vars, site, store_vars, runs, status, io_error, view>>

\* The script run of session s ends: st.* shows the outcome.
Finish(s, outcome) ==
  /\ pc' = [pc EXCEPT ![s] = "done"]
  /\ status' = [status EXCEPT ![s] = outcome]

\* Faulty variant: the write wrapped in a try/except that goes on to the success
\* message.
WriteFailed_caught(s, op) ==
  /\ Finish(s, "success")
  /\ io_error' = [io_error EXCEPT ![s] = @ \cup {op}]

\* A write of the handler raises: nothing catches it, the script run ends
\* with the exception shown.
WriteFailed(s, op) ==
  /\ Finish(s, "exception")
  /\ io_error' = [io_error EXCEPT ![s] = @ \cup {op}]

\* Handler after scrape_category: "if not raw_df.empty" the two to_csv calls
\* (each replaces its file), else the warning.  written is the number of
\* to_csv calls that succeeded; an OSError of to_csv is not caught.
SaveCsv(s) ==
  /\ pc[s] = "returned"
  /\ IF raw_df[s] = << >>
     THEN /\ Finish(s, "warning")
          /\ UNCHANGED <<csv, io_error>>
     ELSE \E written \in 0..2 :
            LET c == scrape[s].category_key
            IN  /\ csv' = [csv EXCEPT
                             ![c].raw = IF written >= 1 THEN Some(raw_df[s]) ELSE @,
                             ![c].cleaned = IF written = 2 THEN Some(cleaned_df[s]) ELSE @]
                /\ IF written = 2
                   THEN /\ pc' = [pc EXCEPT ![s] = "to_sql_raw"]
                        /\ UNCHANGED <<status, io_error>>
                   ELSE WriteFailed(s, "to_csv")
  /\ log' = [log EXCEPT ![s] = << >>]
  /\ UNCHANGED <<price_vars, site_vars, raw_ads, cleaned_ads, writes, runs, scrape,
                 raw_df, cleaned_df, view>>

\* raw_df.to_sql("raw_ads", conn, if_exists="append", index=False); an
\* exception of to_sql is not caught and ends the script run.
ToSqlRaw(s) ==
  /\ pc[s] = "to_sql_raw"
  /\ \E ok \in BOOLEAN :
       IF ok
       THEN /\ raw_ads' = to_sql_append(raw_ads, raw_df[s])
            /\ writes' = writes + 1
            /\ pc' = [pc EXCEPT ![s] = "to_sql_cleaned"]
            /\ UNCHANGED <<status, io_error>>
       ELSE /\ WriteFailed(s, "to_sql_raw")
            /\ UNCHANGED <<raw_ads, writes>>
  /\ UNCHANGED <<price_vars, site_vars, cleaned_ads, csv, runs, scrape, log,
                 raw_df, cleaned_df, view>>

\* cleaned_df.to_sql("cleaned_ads", conn, if_exists="append", index=False),
\* conn.close() and the success message.
ToSqlCleaned(s) ==
  /\ pc[s] = "to_sql_cleaned"
  /\ \E ok \in BOOLEAN :
       IF ok
       THEN /\ cleaned_ads' = to_sql_append(cleaned_ads, cleaned_df[s])
            /\ writes' = writes + 1
            /\ Finish(s, "success")
            /\ UNCHANGED io_error
       ELSE /\ WriteFailed(s, "to_sql_cleaned")
            /\ UNCHANGED <<cleaned_ads, writes>>
  /\ UNCHANGED <<price_vars, site_vars, raw_ads, csv, runs, scrape, log,
                 raw_df, cleaned_df, view>>


\* ------------------------------------------------------------ reading back
\* The rows of a table with scraped_at = t, t descending from top.  Rows of
\* equal scraped_at are kept in insertion order (SQL leaves it open).
RECURSIVE OrderByScrapedAtDesc(_, _)
OrderByScrapedAtDesc(rows, top) ==
  IF top < 0 THEN << >>
  ELSE LET At(r) == r.scraped_at = top
       IN  SelectSeq(rows, At) \o OrderByScrapedAtDesc(rows, top - 1)

Limit(rows, n) == IF Len(rows) <= n THEN rows ELSE SubSeq(rows, 1, n)

\* SELECT * FROM <table> ORDER BY scraped_at DESC LIMIT 500
SelectViewer(table) == Limit(OrderByScrapedAtDesc(Rows(table), clock), ViewerLimit)

\* SELECT * FROM cleaned_ads
SelectAll(table) == Rows(table)

\* pd.read_sql_query inside try/except Exception: a failed read gives an
\* empty frame.
TryRead(ok, rows) == IF ok THEN rows ELSE << >>

\* A script run that is not the Scraper page has no scrape_category locals.
NoScraperLocals(s) ==
  /\ scrape' = [scrape EXCEPT ![s] = NoScrape]
  /\ log' = [log EXCEPT ![s] = << >>]
  /\ raw_df' = [raw_df EXCEPT ![s] = << >>]
  /\ cleaned_df' = [cleaned_df EXCEPT ![s] = << >>]

\* The DB Viewer page: both tables are read, each inside its own try/except,
\* and shown.
DbViewer(s) ==
  /\ Idle(s)
  /\ CreateTables
  /\ \E ok_raw \in BOOLEAN, ok_cleaned \in BOOLEAN :
       /\ view' = [view EXCEPT ![s] =
                     [kind |-> "viewer",
                      raw |-> TryRead(ok_raw, SelectViewer(raw_ads')),
                      cleaned |-> TryRead(ok_cleaned, SelectViewer(cleaned_ads')),
                      writes |-> writes]]
       /\ io_error' = [io_error EXCEPT ![s] =
                         {op \in {"read_raw"} : ~ok_raw}
                         \cup {op \in {"read_cleaned"} : ~ok_cleaned}]
  /\ NoScraperLocals(s)
  /\ Finish(s, "shown")
  /\ UNCHANGED <<price_vars, site_vars, csv, writes, runs>>

\* The Dashboard page: cleaned_ads is read inside try/except and shown.
Dashboard(s) ==
  /\ Idle(s)
  /\ CreateTables
  /\ \E ok \in BOOLEAN :
       /\ view' = [view EXCEPT ![s] =
                     [kind |-> "dashboard",
                      raw |-> << >>,
                      cleaned |-> TryRead(ok, SelectAll(cleaned_ads')),
                      writes |-> writes]]
       /\ io_error' = [io_error EXCEPT ![s] = {op \in {"read_cleaned"} : ~ok}]
  /\ NoScraperLocals(s)
  /\ Finish(s, "shown")
  /\ UNCHANGED <<price_vars, site_vars, csv, writes, runs>>

\* ------------------------------------------------------------ specifications
\* What the browser sessions in S can do.
Next(S) ==
  \/ \E s \in S : StartScraping(s)
  \/ \E s \in S : ScrapePage(s)
  \/ \E s \in S : SaveCsv(s)
  \/ \E s \in S : ToSqlRaw(s)
  \/ \E s \in S : ToSqlCleaned(s)
  \/ \E s \in S : DbViewer(s)
  \/ \E s \in S : Dashboard(s)

\* One browser session: one script run at a time.
Spec == Init /\ [][Next({1})]_vars

\* Two browser sessions, whose script runs interleave.
SpecConcurrent == Init /\ [][Next(Sessions)]_vars

\* One browser session and a site whose listing pages are long.
InitLong ==
  /\ site = {Failure, Success(BigText)}
  /\ cache = << >>
  /\ gets = [u \in Urls |-> 0]
  /\ first_ret = << >>
  /\ clock = 0
  /\ InitStore
  /\ InitSessions
  /\ PriceIdle

SpecLong == InitLong /\ [][Next({1})]_vars

\* The price cleaner applied to one input.
InitPrice ==
  /\ price_in \in PriceInputs
  /\ price_out = None
  /\ price_done = FALSE
  /\ InitSite
  /\ InitStore
  /\ InitSessions

CleanPrice ==
  /\ ~price_done
  /\ price_out' = clean_price_to_int(price_in)
  /\ price_done' = TRUE
  /\ UNCHANGED <<price_in, site_vars, store_vars, session_vars>>

SpecPrice == InitPrice /\ [][CleanPrice]_vars

\* ------------------------------------------------------------ properties
\* Helpers of the properties: what the documentation says of a cleaned price,
\* stated on the input text position by position.
HasDigit(text) == \E i \in 1..Len(text) : text[i] \in DigitChars

DigitsAfter(text, i) == Cardinality({ j \in (i + 1)..Len(text) : text[j] \in DigitChars })

RECURSIVE Pow10(_)
Pow10(k) == IF k = 0 THEN 1 ELSE 10 * Pow10(k - 1)

\* The sum over the digit positions up to i of digit * 10^(digits after it).
RECURSIVE PlaceValueSum(_, _)
PlaceValueSum(text, i) ==
  IF i = 0 THEN 0
  ELSE PlaceValueSum(text, i - 1)
       + (IF text[i] \in DigitChars
          THEN DigitValue(text[i]) * Pow10(DigitsAfter(text, i))
          ELSE 0)

\* C5: clean_price_to_int gives None for None, for "" and for a text without
\* a digit; for any other text it gives the non-negative integer whose
\* decimal digits are the digit characters of the text in their order
\* ("12 500 FCFA" gives 12500, "12-34" gives 1234, "0" gives 0, "abc" None).
C5_CleanPrice ==
  price_done =>
    /\ (price_in = None \/ ~HasDigit(price_in[1])) => price_out = None
    /\ (price_in # None /\ HasDigit(price_in[1])) =>
         /\ Len(price_out) = 1
         /\ price_out[1] \in Nat
         /\ price_out[1] = PlaceValueSum(price_in[1], Len(price_in[1]))
    /\ price_in = Some(<< >>) => price_out = None
    /\ price_in = Some(Text_12_500_FCFA) => price_out = Some(12500)
    /\ price_in = Some(Text_1_200_FCFA) => price_out = Some(1200)
    /\ price_in = Some(Text_12_34) => price_out = Some(1234)
    /\ price_in = Some(Text_abc) => price_out = None
    /\ price_in = Some(Text_007) => price_out = Some(7)
    /\ price_in = Some(<<"0">>) => price_out = Some(0)

C5_Witness ==
  /\ price_done
  /\ price_in = Some(Text_12_500_FCFA)
  /\ price_out = Some(12500)

\* The fetch_page calls of a log, in order.
IsFetch(e) == e.ev = "fetch"
Fetches(s) == SelectSeq(log[s], IsFetch)

\* A fetch whose page was recorded: it succeeded and its text holds a card.
GoodFetch(e) == e.html # None /\ ~e.html[1].blank /\ Len(e.html[1].cards) > 0

\* A scrape_category call of session s has returned and the handler has not
\* moved on.
Returned(s) == pc[s] = "returned"

RawFields(r) == [category |-> r.category, name |-> r.name, price_raw |-> r.price_raw,
                 address |-> r.address, image_link |-> r.image_link]

CleanedFields(c) == [category |-> c.category, name |-> c.name, price |-> c.price,
                     address |-> c.address, image_link |-> c.image_link]

\* What the documentation says a card gives: its three texts and its image
\* source, the lazy-load attribute standing in for an absent primary one.
ItemOfCard(category_key, card) ==
  [category |-> category_key, name |-> card.description, price_raw |-> card.price,
   address |-> card.location,
   image_link |-> IF card.img = None THEN None
                  ELSE IF card.img[1].src \notin {None, Some("")} THEN card.img[1].src
                  ELSE card.img[1].data_src]

\* The items of the first k fetched pages, in page order.
RECURSIVE ItemsOfPages(_, _, _)
ItemsOfPages(category_key, fetches, k) ==
  IF k = 0 THEN << >>
  ELSE ItemsOfPages(category_key, fetches, k - 1)
       \o (LET cards == fetches[k].html[1].cards
           IN  [i \in 1..Len(cards) |-> ItemOfCard(category_key, cards[i])])

\* C2: scrape_category fetches pages 1, 2, ... in order and stops at the
\* first page k whose fetch fails or whose extraction is empty: page k is the
\* last page fetched and the last thing the call did, the call returns, and
\* the returned records are exactly the items of pages 1..k-1 in page order
\* (none when k = 1).
C2_StopsAtFirstBadPage ==
  \A s \in Sessions :
    Returned(s) =>
      LET F == Fetches(s)
          n == Len(F)
      IN  /\ n >= 1 /\ n <= scrape[s].max_pages
          /\ \A j \in 1..n : F[j].page = j
          /\ \A k \in 1..n :
               ~GoodFetch(F[k]) =>
                 /\ k = n
                 /\ log[s][Len(log[s])] = F[n]
                 /\ [i \in 1..Len(raw_df[s]) |-> RawFields(raw_df[s][i])]
                      = ItemsOfPages(scrape[s].category_key, F, k - 1)
                 /\ Len(cleaned_df[s]) = Len(raw_df[s])
                 /\ \A i \in 1..Len(cleaned_df[s]) :
                      /\ CleanedFields(cleaned_df[s][i]).price
                           = clean_price_to_int(raw_df[s][i].price_raw)
                      /\ [CleanedFields(cleaned_df[s][i]) EXCEPT !.price = None]
                           = [price |-> None, category |-> raw_df[s][i].category,
                              name |-> raw_df[s][i].name, address |-> raw_df[s][i].address,
                              image_link |-> raw_df[s][i].image_link]

C2_Witness ==
  /\ Returned(1)
  /\ scrape[1].max_pages = 2
  /\ Len(Fetches(1)) = 2
  /\ GoodFetch(Fetches(1)[1])
  /\ Fetches(1)[2].html = Some(NoCardText)
  /\ Len(raw_df[1]) = 2

\* C3: when every fetch succeeds with a non-empty extraction, scrape_category
\* called with max_pages = N fetches exactly the pages 1..N once each, in
\* order, and returns N batches of items, one per page in page order, the
\* records of one page carrying one scraped_at value.
IsAppend(e) == e.ev = "append"
Appends(s) == SelectSeq(log[s], IsAppend)

\* Number of rows of the first k batches.
RECURSIVE RowsBefore(_, _)
RowsBefore(appends, k) == IF k = 0 THEN 0 ELSE RowsBefore(appends, k - 1) + appends[k].n

C3_AllPagesWhenAllGood ==
  \A s \in Sessions :
    (Returned(s) /\ \A j \in 1..Len(Fetches(s)) : GoodFetch(Fetches(s)[j])) =>
      LET F == Fetches(s)
          A == Appends(s)
          N == scrape[s].max_pages
      IN  /\ Len(F) = N
          /\ \A j \in 1..N : F[j].page = j
          /\ Len(A) = N
          /\ \A j \in 1..N : A[j].page = j /\ A[j].n = Len(F[j].html[1].cards)
          /\ Len(raw_df[s]) = RowsBefore(A, N)
          /\ Len(cleaned_df[s]) = RowsBefore(A, N)
          /\ \A j \in 1..N :
               \A i1, i2 \in (RowsBefore(A, j - 1) + 1)..RowsBefore(A, j) :
                 /\ raw_df[s][i1].scraped_at = raw_df[s][i2].scraped_at
                 /\ cleaned_df[s][i1].scraped_at = cleaned_df[s][i2].scraped_at
          /\ [i \in 1..Len(raw_df[s]) |-> RawFields(raw_df[s][i])]
               = ItemsOfPages(scrape[s].category_key, F, N)

C3_Witness ==
  /\ Returned(1)
  /\ scrape[1].max_pages = 2
  /\ Len(Fetches(1)) = 2
  /\ \A j \in 1..2 : GoodFetch(Fetches(1)[j])
  /\ Len(raw_df[1]) = 3

\* C4 as stated: every record of one scrape_category invocation carries a
\* non-null scraped_at, one and the same for all records of the invocation,
\* across all its pages, in the raw and in the cleaned set.
C4_OneTimestampPerInvocation ==
  \A s \in Sessions :
    Returned(s) =>
      \A i, j \in 1..Len(raw_df[s]) :
        /\ raw_df[s][i].scraped_at \in Nat
        /\ raw_df[s][i].scraped_at = raw_df[s][j].scraped_at
        /\ cleaned_df[s][i].scraped_at = cleaned_df[s][j].scraped_at

\* C4 as amended: every record carries a non-null scraped_at, the cleaned
\* record that of its raw record, and the records of one page of an
\* invocation carry one and the same scraped_at (one clock reading per
\* recorded page, not per invocation).
C4_OneTimestampPerPage ==
  \A s \in Sessions :
    Returned(s) =>
      LET A == Appends(s)
      IN  /\ Len(raw_df[s]) = RowsBefore(A, Len(A))
          /\ Len(cleaned_df[s]) = Len(raw_df[s])
          /\ \A i \in 1..Len(raw_df[s]) :
               /\ raw_df[s][i].scraped_at \in Nat
               /\ cleaned_df[s][i].scraped_at = raw_df[s][i].scraped_at
          /\ \A p \in 1..Len(A) :
               \A i, j \in (RowsBefore(A, p - 1) + 1)..RowsBefore(A, p) :
                 raw_df[s][i].scraped_at = raw_df[s][j].scraped_at

C4_Witness ==
  /\ Returned(1)
  /\ Len(Appends(1)) = 2
  /\ Appends(1)[1].n = 2
  /\ raw_df[1][1].scraped_at = raw_df[1][2].scraped_at
  /\ raw_df[1][2].scraped_at # raw_df[1][3].scraped_at

IndexOf(events, ev, page) ==
  IF \E i \in 1..Len(events) : events[i].ev = ev /\ events[i].page = page
  THEN CHOOSE i \in 1..Len(events) : events[i].ev = ev /\ events[i].page = page
  ELSE 0

CountOf(events, ev, page) ==
  Cardinality({ i \in 1..Len(events) : events[i].ev = ev /\ events[i].page = page })

\* The progress part of C9: progress_callback(p, max_pages) is called once
\* for each page p whose items were recorded and for no other page, in
\* increasing p, after the rows of p were accumulated and before the fetch
\* of page p + 1.
ProgressOncePerRecordedPage(s) ==
  LET L == log[s]
  IN  \A p \in 1..MaxPages :
        /\ CountOf(L, "progress", p) = CountOf(L, "append", p)
        /\ CountOf(L, "progress", p) <= 1
        /\ CountOf(L, "progress", p) = 1 =>
             /\ L[IndexOf(L, "progress", p)].n = scrape[s].max_pages
             /\ IndexOf(L, "append", p) < IndexOf(L, "progress", p)
             /\ \A q \in 1..MaxPages :
                  (q > p /\ CountOf(L, "fetch", q) > 0) =>
                    IndexOf(L, "progress", p) < IndexOf(L, "fetch", q)
             /\ \A q \in 1..MaxPages :
                  (q < p /\ CountOf(L, "progress", q) > 0) =>
                    IndexOf(L, "progress", q) < IndexOf(L, "progress", p)

\* C9 as stated: the progress part, and the scraper sleeps after every
\* fetched page, the last one included.
C9_SleepAfterEveryFetchedPage ==
  \A s \in Sessions :
    Returned(s) =>
      /\ ProgressOncePerRecordedPage(s)
      /\ \A p \in 1..MaxPages :
           (CountOf(log[s], "fetch", p) > 0 /\ log[s][IndexOf(log[s], "fetch", p)].html # None)
             => /\ CountOf(log[s], "sleep", p) = 1
                /\ IndexOf(log[s], "fetch", p) < IndexOf(log[s], "sleep", p)

\* C9 as amended: the progress part, and the scraper sleeps once after every
\* page whose items were recorded, the last page max_pages included, before
\* the next fetch; it does not sleep after a page whose fetch failed or whose
\* extraction was empty.
C9_SleepAfterEveryRecordedPage ==
  \A s \in Sessions :
    Returned(s) =>
      /\ ProgressOncePerRecordedPage(s)
      /\ \A p \in 1..MaxPages :
           /\ CountOf(log[s], "sleep", p) = CountOf(log[s], "append", p)
           /\ CountOf(log[s], "sleep", p) = 1 =>
                /\ IndexOf(log[s], "append", p) < IndexOf(log[s], "sleep", p)
                /\ \A q \in 1..MaxPages :
                     (q > p /\ CountOf(log[s], "fetch", q) > 0) =>
                       IndexOf(log[s], "sleep", p) < IndexOf(log[s], "fetch", q)
           /\ (CountOf(log[s], "fetch", p) > 0
               /\ ~GoodFetch(log[s][IndexOf(log[s], "fetch", p)]))
                => CountOf(log[s], "sleep", p) = 0

\* Two pages were recorded, the second being page max_pages, and a sleep
\* followed each.
C9_Witness ==
  /\ Returned(1)
  /\ scrape[1].max_pages = 2
  /\ CountOf(log[1], "progress", 1) = 1
  /\ CountOf(log[1], "progress", 2) = 1
  /\ log[1][Len(log[1])] = Event("sleep", 2, 0, None)

WriteOps == {"to_csv", "to_sql_raw", "to_sql_cleaned"}
ReadOps == {"read_raw", "read_cleaned"}

\* C8 as stated: every storage error of an append or of a bulk read is
\* surfaced to the caller as a failure, never swallowed, and a failed write
\* leaves the record sets scrape_category returned unchanged in memory.
C8_EveryStorageErrorSurfaces ==
  \A s \in Sessions :
    io_error[s] # {} =>
      /\ status[s] = "exception"
      /\ raw_df[s] = scrape[s].all_raw
      /\ cleaned_df[s] = scrape[s].all_cleaned

\* C8 as amended: an error of a write (to_csv, to_sql of the raw records,
\* to_sql of the cleaned records) ends the script run with the exception
\* shown and leaves the two record sets as scrape_category returned them;
\* an error of a bulk read (Dashboard, DB Viewer) is caught, and the page is
\* shown with an empty frame in place of the collection.
C8_WriteErrorsSurfaceReadErrorsDoNot ==
  \A s \in Sessions :
    /\ io_error[s] \cap WriteOps # {} =>
         /\ pc[s] = "done"
         /\ status[s] = "exception"
         /\ raw_df[s] # << >>
         /\ raw_df[s] = scrape[s].all_raw
         /\ cleaned_df[s] = scrape[s].all_cleaned
    /\ io_error[s] \cap ReadOps # {} =>
         /\ pc[s] = "done"
         /\ status[s] = "shown"
    /\ "read_raw" \in io_error[s] => view[s].raw = << >>
    /\ "read_cleaned" \in io_error[s] => view[s].cleaned = << >>

\* The second append raised after the first was committed.
C8_Witness ==
  /\ io_error[1] = {"to_sql_cleaned"}
  /\ status[1] = "exception"
  /\ Len(raw_df[1]) = 3
  /\ Len(cleaned_df[1]) = 3

\* A script run of session s is between the start of its first append and
\* the end of its second.
Persisting(s) == pc[s] \in {"to_sql_raw", "to_sql_cleaned"}

\* C10: whenever no persist step is under way, also after one that a storage
\* failure aborted between its two appends and with two sessions scraping at
\* once, raw_ads and cleaned_ads hold as many rows: a batch is appended to
\* both or to neither, and an empty batch to neither.
C10_RawCountEqualsCleanedCount ==
  (\A s \in Sessions : ~Persisting(s)) =>
    Len(Rows(raw_ads)) = Len(Rows(cleaned_ads))

IsPrefix(a, b) == Len(a) <= Len(b) /\ SubSeq(b, 1, Len(a)) = a

\* No step removes, changes or reorders a stored row, or drops a table.
AppendOnlyStep ==
  /\ IsPrefix(Rows(raw_ads), Rows(raw_ads'))
  /\ IsPrefix(Rows(cleaned_ads), Rows(cleaned_ads'))
  /\ raw_ads # None => raw_ads' # None
  /\ cleaned_ads # None => cleaned_ads' # None

\* The frames session s shows were read with no error and no append was
\* committed since.
FreshRead(s, kind, op) ==
  /\ pc[s] = "done"
  /\ view[s].kind = kind
  /\ view[s].writes = writes
  /\ op \notin io_error[s]

Min(a, b) == IF a <= b THEN a ELSE b

\* shown holds the ViewerLimit rows of stored with the greatest scraped_at
\* (all of them when there are no more), greatest first, each as stored.
NewestOf(shown, stored) ==
  /\ Len(shown) = Min(Len(stored), ViewerLimit)
  /\ \A i \in 1..(Len(shown) - 1) : shown[i].scraped_at >= shown[i + 1].scraped_at
  /\ \A t \in 0..clock :
       LET At(r) == r.scraped_at = t
           shown_t == SelectSeq(shown, At)
           stored_t == SelectSeq(stored, At)
           stored_set == { stored_t[j] : j \in 1..Len(stored_t) }
       IN  /\ Len(shown_t) <= Len(stored_t)
           /\ \A i \in 1..Len(shown_t) : shown_t[i] \in stored_set
           /\ Len(shown_t) < Len(stored_t) =>
                \A i \in 1..Len(shown) : shown[i].scraped_at >= t

\* C7 as stated, its read-back sentence: reading a collection back after an
\* append, with no write in between, yields every appended record.
C7_ReadBackYieldsEveryRow ==
  \A s \in Sessions :
    /\ FreshRead(s, "viewer", "read_raw") => Len(view[s].raw) = Len(Rows(raw_ads))
    /\ FreshRead(s, "viewer", "read_cleaned") =>
         Len(view[s].cleaned) = Len(Rows(cleaned_ads))
    /\ FreshRead(s, "dashboard", "read_cleaned") => view[s].cleaned = Rows(cleaned_ads)

\* What a read with no write in between yields: the Dashboard every row of
\* cleaned_ads, the DB Viewer the ViewerLimit newest rows of each table.
ReadBackWithinLimit ==
  \A s \in Sessions :
    /\ FreshRead(s, "dashboard", "read_cleaned") => view[s].cleaned = Rows(cleaned_ads)
    /\ FreshRead(s, "viewer", "read_raw") => NewestOf(view[s].raw, Rows(raw_ads))
    /\ FreshRead(s, "viewer", "read_cleaned") =>
         NewestOf(view[s].cleaned, Rows(cleaned_ads))

\* C7 as amended: persistence is append-only (no scrape-and-persist run and
\* no schema creation removes, changes or replaces a stored row; a repeated
\* scrape adds rows), and a read with no write in between yields every
\* stored row unchanged when it is the Dashboard's SELECT *, but only the 500
\* rows of greatest scraped_at when it is the DB Viewer's.
C7_AppendOnlyReadBackWithinLimit ==
  /\ [][AppendOnlyStep]_vars
  /\ []ReadBackWithinLimit

\* The DB Viewer shows 500 of the more than 500 rows two scrapes left in
\* raw_ads.
C7_Witness ==
  /\ FreshRead(1, "viewer", "read_raw")
  /\ Len(view[1].raw) = ViewerLimit
  /\ Len(Rows(raw_ads)) > ViewerLimit
  /\ runs = 2

====
